---- MODULE Spec2Model ----
(***************************************************************************)
(* Model of the usbmuxd tunnelling client (socket/client.go).              *)
(*                                                                         *)
(* One tunnel of the `tunnels` list runs its accept loop; for each         *)
(* accepted local connection it calls connectToServer and, on success,     *)
(* starts a splice session (startProxy) as its own goroutine.  The peers   *)
(* of the connections (the local client, the relay) are the environment:   *)
(* they may send bytes, close (end-of-stream) or reset at any time.        *)
(***************************************************************************)
EXTENDS Integers, Sequences, FiniteSets, TLC

(* Bounds of the model: clients that connect to the listener, payload     *)
(* bytes the peers send in one run, accept errors in one run.              *)
MaxConns == 2
MaxBytes == 2
MaxAcceptErrs == 1

Conns == 1..MaxConns
Sides == {"local", "remote"}

(* startProxy(a, b) is always called as startProxy(localConn, serverConn). *)
Other(s) == IF s = "local" THEN "remote" ELSE "local"

VARIABLES
    env,         \* what the environment does in this run (clients, payload)
    tunnel,      \* the Tunnel this listener runs
    lpc,         \* position of the accept loop
    cur,         \* the connection the loop is handling (0: none yet)
    acceptErrs,  \* accept errors seen so far
    ret,         \* ret[c]: what connectToServer returned for connection c
    arg,         \* arg[c][s]: the net.Conn value ("nil" or "conn")
    peer,        \* peer[c][s]: "none" | "open" | "eof" | "reset"
    closeCalls,  \* closeCalls[c][s]: number of Close() calls made on it
    sent,        \* sent[c][s]: payload bytes the peer has sent
    rcv,         \* rcv[c][s]: bytes received from the peer, not yet read
    rd,          \* rd[c][s]: bytes the engine has read from side s
    wire,        \* wire[c][s]: bytes the engine has written to side s
    buf,         \* buf[c][s]: chunk read from s by its copy task, unwritten
    tpc,         \* tpc[c][s]: position of the copy task whose source is s
    once,        \* once[c]: state of closeOnce
    wg,          \* wg[c]: the WaitGroup counter of the session
    spc,         \* spc[c]: position of startProxy itself
    config,      \* the package variables read from the process environment
    fs,          \* the filesystem at the socket path, and the calls made on it
    rpc,         \* position of Run / runTunnel
    variant,     \* the handler runTunnel chose for the tunnel
    dials,       \* net.Dial calls runTunnel made to the local address
    crypt        \* one call of crypt.EncryptHandshake

vars == <<env, tunnel, lpc, cur, acceptErrs, ret, arg, peer, closeCalls, sent,
          rcv, rd, wire, buf, tpc, once, wg, spc, config, fs, rpc, variant,
          dials, crypt>>

procVars == <<config, fs, rpc, variant, dials, crypt>>
loopVars == <<procVars, env, tunnel, lpc, cur, acceptErrs, ret>>
dataVars == <<sent, rcv, rd, wire, buf>>
sessVars == <<tpc, once, wg, spc>>

(***************************************************************************)
(* Configuration.                                                          *)
(***************************************************************************)
(* An address is the sequence of its characters; every character other    *)
(* than the path separator and the port delimiter is written "a".          *)
MaxAddrLen == 2
Chars == {"/", ":", "a"}
Addrs == UNION { [1..n -> Chars] : n \in 0..MaxAddrLen }

(* Lines 27-29: an environment variable is unset ("") or set. *)
Settings == {"", "set"}

(* Lines 33-36: the `tunnels` list for a value of USBMUXD_SOCKET_ADDRESS;  *)
(* the second entry is "127.0.0.1:7777".                                   *)
tunnelsOf(serverSocket) ==
    { [localAddr |-> serverSocket,      handshake |-> "usbmuxd"],
      [localAddr |-> <<"a", ":", "a">>, handshake |-> "forward"] }

(* The two entries of `tunnels` with the socket path set to a file path    *)
(* such as "/var/run/usbmuxd".                                             *)
SocketPath == <<"/", "a">>
tunnels == tunnelsOf(SocketPath)

(* strings.HasPrefix(s, "/") and strings.Contains(s, ":") *)
HasPrefix(s, ch) == Len(s) > 0 /\ s[1] = ch
Contains(s, ch) == \E i \in 1..Len(s) : s[i] = ch

(* A classification that looks for the port delimiter first. *)
ClassifyColonFirst(addr) ==
    IF Contains(addr, ":") THEN "tcp"
    ELSE IF HasPrefix(addr, "/") THEN "unix"
    ELSE "direct"

(* Lines 208-218: the handler runTunnel chooses for a local address. *)
Classify(addr) ==
    IF HasPrefix(addr, "/") THEN "unix"
    ELSE IF Contains(addr, ":") THEN "tcp"
    ELSE "direct"

(* A handshake written without its line terminator. *)
HandshakeNoNewline(h) == <<h>>

(* The bytes connectToServer writes: []byte(handshake + "\n"). *)
HandshakeBytes(h) == <<h, "\n">>

(* The k-th payload byte the peer on side s sends. *)
Byte(s, k) == <<s, k>>

(***************************************************************************)
(* Connections.                                                            *)
(***************************************************************************)
IsClosed(c, s) == closeCalls[c][s] > 0

(* A Close that reaches the same side of every connection. *)
CloseAllConns(cc, c, s) == [d \in Conns |-> [cc[d] EXCEPT ![s] = @ + 1]]

(* conn.Close(): one more Close call on the connection. *)
CloseConn(cc, c, s) == [cc EXCEPT ![c][s] = @ + 1]

(* A write can succeed: the descriptor is open and the peer has not reset. *)
Writable(c, s) == ~IsClosed(c, s) /\ peer[c][s] \in {"open", "eof"}

Prefixes(q) == { SubSeq(q, 1, k) : k \in 0..Len(q) }
IsPrefix(p, q) == Len(p) <= Len(q) /\ SubSeq(q, 1, Len(p)) = p

(***************************************************************************)
(* Initial state: the listener of one tunnel is bound and no client has    *)
(* connected yet.                                                          *)
(***************************************************************************)
NoRet == [conn |-> 0, err |-> "nil"]

(* The runs explored: one client whose connections carry up to MaxBytes    *)
(* payload bytes, or MaxConns clients whose connections carry none.        *)
Loads ==
    { [clients |-> 1, bytes |-> MaxBytes],
      [clients |-> MaxConns, bytes |-> 0] }

(* No call of EncryptHandshake is in progress. *)
NoCrypt == [pc |-> "off"]

(* The process state once the tunnel's listener is bound: both relay      *)
(* settings are set, and a domain socket was created at the socket path.   *)
Listening(t) ==
    /\ config = [serverAddr |-> "set", serverPort |-> "set",
                 serverSocket |-> SocketPath]
    /\ variant = Classify(t.localAddr)
    /\ fs = IF variant = "unix"
            THEN [file |-> "socket", dir |-> TRUE, err |-> "nil",
                  removed |-> FALSE, ops |-> <<"remove", "mkdir", "bind">>]
            ELSE [file |-> "none", dir |-> TRUE, err |-> "nil",
                  removed |-> FALSE, ops |-> <<>>]
    /\ rpc = "listening"
    /\ dials = 0
    /\ crypt = NoCrypt

Init ==
    /\ env \in Loads
    /\ tunnel \in tunnels
    /\ Listening(tunnel)
    /\ lpc = "accept"
    /\ cur = 0
    /\ acceptErrs = 0
    /\ ret = [c \in Conns |-> NoRet]
    /\ arg = [c \in Conns |-> [s \in Sides |-> "conn"]]
    /\ peer = [c \in Conns |-> [s \in Sides |-> "none"]]
    /\ closeCalls = [c \in Conns |-> [s \in Sides |-> 0]]
    /\ sent = [c \in Conns |-> [s \in Sides |-> 0]]
    /\ rcv = [c \in Conns |-> [s \in Sides |-> <<>>]]
    /\ rd = [c \in Conns |-> [s \in Sides |-> <<>>]]
    /\ wire = [c \in Conns |-> [s \in Sides |-> <<>>]]
    /\ buf = [c \in Conns |-> [s \in Sides |-> <<>>]]
    /\ tpc = [c \in Conns |-> [s \in Sides |-> "idle"]]
    /\ once = [c \in Conns |-> "idle"]
    /\ wg = [c \in Conns |-> 0]
    /\ spc = [c \in Conns |-> "none"]

(* A nil dereference in any goroutine ends the whole process;             *)
(* log.Fatal from the startup code does the same. *)
Running == rpc # "fatal" /\ \A c \in Conns : spc[c] # "panic"

(***************************************************************************)
(* The environment: local clients and the relay.                           *)
(***************************************************************************)
(* A client connects to the listening socket (clients are numbered in the  *)
(* order the listener will accept them).                                   *)
ClientConnect(c) ==
    /\ rpc = "listening"
    /\ peer[c]["local"] = "none"
    /\ c <= env.clients
    /\ IF c = 1 THEN TRUE ELSE peer[c - 1]["local"] # "none"
    /\ peer' = [peer EXCEPT ![c]["local"] = "open"]
    /\ UNCHANGED <<loopVars, arg, closeCalls, dataVars, sessVars>>

(* Payload bytes sent so far by all peers together. *)
TotalSent ==
    LET Sum[n \in 0..MaxConns] ==
            IF n = 0 THEN 0
            ELSE Sum[n - 1] + sent[n]["local"] + sent[n]["remote"]
    IN  Sum[MaxConns]

PeerSend(c, s) ==
    /\ peer[c][s] = "open"
    /\ ~IsClosed(c, s)
    /\ TotalSent < env.bytes
    /\ sent' = [sent EXCEPT ![c][s] = @ + 1]
    /\ rcv' = [rcv EXCEPT ![c][s] = Append(@, Byte(s, sent[c][s] + 1))]
    /\ UNCHANGED <<loopVars, arg, peer, closeCalls, rd, wire, buf, sessVars>>

(* The peer closes its end: the engine will read end-of-stream. *)
PeerClose(c, s) ==
    /\ peer[c][s] = "open"
    /\ ~IsClosed(c, s)
    /\ peer' = [peer EXCEPT ![c][s] = "eof"]
    /\ UNCHANGED <<loopVars, arg, closeCalls, dataVars, sessVars>>

(* The peer resets the connection. *)
PeerReset(c, s) ==
    /\ peer[c][s] \in {"open", "eof"}
    /\ ~IsClosed(c, s)
    /\ peer' = [peer EXCEPT ![c][s] = "reset"]
    /\ UNCHANGED <<loopVars, arg, closeCalls, dataVars, sessVars>>

(***************************************************************************)
(* connectToServer, called by the accept loop for connection `cur`.        *)
(***************************************************************************)
(* net.DialTimeout succeeds. *)
DialOk ==
    /\ Running
    /\ lpc = "connect"
    /\ peer' = [peer EXCEPT ![cur]["remote"] = "open"]
    /\ lpc' = "handshake"
    /\ UNCHANGED <<procVars, env, tunnel, cur, acceptErrs, ret, arg,
                   closeCalls, dataVars, sessVars>>

(* net.DialTimeout fails (refused, or the 10 s timeout): return nil, err. *)
DialFail ==
    /\ Running
    /\ lpc = "connect"
    /\ ret' = [ret EXCEPT ![cur] = [conn |-> 0, err |-> "dial"]]
    /\ lpc' = "returned"
    /\ UNCHANGED <<procVars, env, tunnel, cur, acceptErrs, arg, peer,
                   closeCalls, dataVars, sessVars>>

(* conn.Write([]byte(handshake + "\n")): on success return conn, nil. *)
HandshakeWrite ==
    /\ Running
    /\ lpc = "handshake"
    /\ IF Writable(cur, "remote")
       THEN /\ wire' = [wire EXCEPT ![cur]["remote"] =
                            @ \o HandshakeBytes(tunnel.handshake)]
            /\ ret' = [ret EXCEPT ![cur] = [conn |-> cur, err |-> "nil"]]
            /\ lpc' = "returned"
       ELSE /\ \E p \in Prefixes(HandshakeBytes(tunnel.handshake))
                        \ {HandshakeBytes(tunnel.handshake)} :
                  wire' = [wire EXCEPT ![cur]["remote"] = @ \o p]
            /\ ret' = ret
            /\ lpc' = "hsfail"
    /\ UNCHANGED <<procVars, env, tunnel, cur, acceptErrs, arg, peer,
                   closeCalls, sent, rcv, rd, buf, sessVars>>

(* A write-error branch that returns without closing the dialed conn. *)
HandshakeFailedLeak ==
    /\ Running
    /\ lpc = "hsfail"
    /\ ret' = [ret EXCEPT ![cur] = [conn |-> 0, err |-> "write"]]
    /\ lpc' = "returned"
    /\ UNCHANGED <<procVars, env, tunnel, cur, acceptErrs, arg, peer,
                   closeCalls, dataVars, sessVars>>

(* The write failed: conn.Close(); return nil, err. *)
HandshakeFailed ==
    /\ Running
    /\ lpc = "hsfail"
    /\ closeCalls' = CloseConn(closeCalls, cur, "remote")
    /\ ret' = [ret EXCEPT ![cur] = [conn |-> 0, err |-> "write"]]
    /\ lpc' = "returned"
    /\ UNCHANGED <<procVars, env, tunnel, cur, acceptErrs, arg, peer,
                   dataVars, sessVars>>

(***************************************************************************)
(* The accept loop of handleUnixSocket / handleTCPListener.                *)
(***************************************************************************)
(* listener.Accept() returns the next pending connection. *)
Accept ==
    /\ Running
    /\ rpc = "listening"
    /\ lpc = "accept"
    /\ cur < MaxConns
    /\ peer[cur + 1]["local"] # "none"
    /\ cur' = cur + 1
    /\ lpc' = "connect"
    /\ UNCHANGED <<procVars, env, tunnel, acceptErrs, ret, arg, peer,
                   closeCalls, dataVars, sessVars>>

(* An accept error that ends the loop and the process. *)
AcceptErrorFatal ==
    /\ Running
    /\ rpc = "listening"
    /\ lpc = "accept"
    /\ acceptErrs < MaxAcceptErrs
    /\ acceptErrs' = acceptErrs + 1
    /\ lpc' = "off"
    /\ rpc' = "fatal"
    /\ UNCHANGED <<env, tunnel, cur, ret, arg, peer, closeCalls, dataVars,
                   sessVars, config, fs, variant, dials, crypt>>

(* listener.Accept() returns an error: log, continue. *)
AcceptError ==
    /\ Running
    /\ rpc = "listening"
    /\ lpc = "accept"
    /\ acceptErrs < MaxAcceptErrs
    /\ acceptErrs' = acceptErrs + 1
    /\ lpc' = "accept"
    /\ UNCHANGED <<procVars, env, tunnel, cur, ret, arg, peer, closeCalls,
                   dataVars, sessVars>>

(* An error branch that forgets the accepted connection. *)
ConnectFailedLeak ==
    /\ Running
    /\ rpc = "listening"
    /\ lpc = "returned"
    /\ ret[cur].err # "nil"
    /\ lpc' = "accept"
    /\ UNCHANGED <<procVars, env, tunnel, cur, acceptErrs, ret, arg, peer,
                   closeCalls, dataVars, sessVars>>

(* connectToServer returned an error: localConn.Close(); continue. *)
ConnectFailed ==
    /\ Running
    /\ rpc = "listening"
    /\ lpc = "returned"
    /\ ret[cur].err # "nil"
    /\ closeCalls' = CloseConn(closeCalls, cur, "local")
    /\ lpc' = "accept"
    /\ UNCHANGED <<procVars, env, tunnel, cur, acceptErrs, ret, arg, peer,
                   dataVars, sessVars>>

(* go startProxy(localConn, serverConn) *)
SpawnProxy ==
    /\ Running
    /\ rpc = "listening"
    /\ lpc = "returned"
    /\ ret[cur].err = "nil"
    /\ arg' = [arg EXCEPT ![cur] =
                  [local |-> "conn",
                   remote |-> IF ret[cur].conn = 0 THEN "nil" ELSE "conn"]]
    /\ spc' = [spc EXCEPT ![cur] = "start"]
    /\ lpc' = "accept"
    /\ UNCHANGED <<procVars, env, tunnel, cur, acceptErrs, ret, peer,
                   closeCalls, dataVars, tpc, once, wg>>

(***************************************************************************)
(* startProxy(a, b): the splice session of connection pair c.              *)
(***************************************************************************)
(* Lines 57-68: the log fields call a.RemoteAddr() and b.RemoteAddr(),     *)
(* which dereference a nil connection; otherwise wg.Add(2) and both copy   *)
(* goroutines are started.                                                 *)
StartProxy(c) ==
    /\ Running
    /\ spc[c] = "start"
    /\ IF arg[c]["local"] = "nil" \/ arg[c]["remote"] = "nil"
       THEN /\ spc' = [spc EXCEPT ![c] = "panic"]
            /\ UNCHANGED <<tpc, wg>>
       ELSE /\ spc' = [spc EXCEPT ![c] = "wait"]
            /\ wg' = [wg EXCEPT ![c] = 2]
            /\ tpc' = [tpc EXCEPT ![c] = [s \in Sides |-> "probe"]]
    /\ UNCHANGED <<loopVars, arg, peer, closeCalls, dataVars, once>>

(* isConnectionOpen(conn): what conn.Write(nil) can answer.  A descriptor  *)
(* closed by the engine always fails; a reset by the peer may or may not   *)
(* be surfaced by a zero-length write; a peer's end-of-stream is not.      *)
isConnectionOpen(c, s) ==
    IF arg[c][s] = "nil" \/ IsClosed(c, s) THEN {FALSE}
    ELSE IF peer[c][s] = "reset" THEN {TRUE, FALSE}
    ELSE {TRUE}

(* A probe whose failure goes on to the shared close. *)
ProbeClosing(c, s) ==
    /\ Running
    /\ tpc[c][s] = "probe"
    /\ \E ok \in isConnectionOpen(c, s) :
          tpc' = [tpc EXCEPT ![c][s] = IF ok THEN "read" ELSE "once"]
    /\ UNCHANGED <<loopVars, arg, peer, closeCalls, dataVars, once, wg, spc>>

(* A probe whose answer is not looked at. *)
ProbeIgnored(c, s) ==
    /\ Running
    /\ tpc[c][s] = "probe"
    /\ tpc' = [tpc EXCEPT ![c][s] = "read"]
    /\ UNCHANGED <<loopVars, arg, peer, closeCalls, dataVars, once, wg, spc>>

(* Lines 72-75 / 88-91: probe the source; if it is not open, return        *)
(* (the deferred wg.Done runs) without touching closeOnce.                 *)
Probe(c, s) ==
    /\ Running
    /\ tpc[c][s] = "probe"
    /\ \E ok \in isConnectionOpen(c, s) :
          IF ok
          THEN /\ tpc' = [tpc EXCEPT ![c][s] = "read"]
               /\ wg' = wg
          ELSE /\ tpc' = [tpc EXCEPT ![c][s] = "skipped"]
               /\ wg' = [wg EXCEPT ![c] = @ - 1]
    /\ UNCHANGED <<loopVars, arg, peer, closeCalls, dataVars, once, spc>>

(* io.Copy(dst, src), the read half: src.Read returns a chunk of the       *)
(* received bytes. Blocks while nothing is received and src is open.       *)
CopyRead(c, s) ==
    /\ Running
    /\ tpc[c][s] = "read"
    /\ ~IsClosed(c, s)
    /\ rcv[c][s] # <<>>
    /\ \E k \in 1..Len(rcv[c][s]) :
          /\ buf' = [buf EXCEPT ![c][s] = SubSeq(rcv[c][s], 1, k)]
          /\ rd' = [rd EXCEPT ![c][s] = @ \o SubSeq(rcv[c][s], 1, k)]
          /\ rcv' = [rcv EXCEPT ![c][s] =
                        SubSeq(@, k + 1, Len(@))]
    /\ tpc' = [tpc EXCEPT ![c][s] = "write"]
    /\ UNCHANGED <<loopVars, arg, peer, closeCalls, sent, wire, once, wg, spc>>

(* A read that a Close from the other goroutine does not wake. *)
CopyReadEndNoWake(c, s) ==
    /\ Running
    /\ tpc[c][s] = "read"
    /\ \/ peer[c][s] = "reset"
       \/ peer[c][s] = "eof" /\ rcv[c][s] = <<>>
    /\ tpc' = [tpc EXCEPT ![c][s] = "once"]
    /\ UNCHANGED <<loopVars, arg, peer, closeCalls, dataVars, once, wg, spc>>

(* src.Read ends the copy: the descriptor was closed (by closeOnce of the  *)
(* other task), the peer reset, or end-of-stream after the last byte.      *)
CopyReadEnd(c, s) ==
    /\ Running
    /\ tpc[c][s] = "read"
    /\ \/ IsClosed(c, s)
       \/ peer[c][s] = "reset"
       \/ peer[c][s] = "eof" /\ rcv[c][s] = <<>>
    /\ tpc' = [tpc EXCEPT ![c][s] = "once"]
    /\ UNCHANGED <<loopVars, arg, peer, closeCalls, dataVars, once, wg, spc>>

(* A copy loop that loses the chunk it read. *)
CopyWriteLossy(c, s) ==
    /\ Running
    /\ tpc[c][s] = "write"
    /\ tpc' = [tpc EXCEPT ![c][s] = "read"]
    /\ buf' = [buf EXCEPT ![c][s] = <<>>]
    /\ UNCHANGED <<loopVars, arg, peer, closeCalls, sent, rcv, rd, wire, once,
                   wg, spc>>

(* io.Copy, the write half: dst.Write(buf[0:nr]) writes the whole chunk,   *)
(* or fails having written only part of it, which ends the copy.           *)
CopyWrite(c, s) ==
    /\ Running
    /\ tpc[c][s] = "write"
    /\ IF Writable(c, Other(s))
       THEN /\ wire' = [wire EXCEPT ![c][Other(s)] = @ \o buf[c][s]]
            /\ tpc' = [tpc EXCEPT ![c][s] = "read"]
       ELSE /\ \E p \in Prefixes(buf[c][s]) \ {buf[c][s]} :
                  wire' = [wire EXCEPT ![c][Other(s)] = @ \o p]
            /\ tpc' = [tpc EXCEPT ![c][s] = "once"]
    /\ buf' = [buf EXCEPT ![c][s] = <<>>]
    /\ UNCHANGED <<loopVars, arg, peer, closeCalls, sent, rcv, rd, once, wg,
                   spc>>

(* A closeOnce that is a plain function: every caller runs the closes. *)
CloseOnceCallNoGate(c, s) ==
    /\ Running
    /\ tpc[c][s] = "once"
    /\ once' = [once EXCEPT ![c] = "running"]
    /\ tpc' = [tpc EXCEPT ![c][s] = "closeA"]
    /\ UNCHANGED <<loopVars, arg, peer, closeCalls, dataVars, wg, spc>>

(* closeOnce(): sync.OnceFunc. The first caller runs the function; a       *)
(* caller arriving while it runs waits for it; later callers return at     *)
(* once (and the deferred wg.Done runs).                                   *)
CloseOnceCall(c, s) ==
    /\ Running
    /\ tpc[c][s] = "once"
    /\ once[c] # "running"
    /\ IF once[c] = "idle"
       THEN /\ once' = [once EXCEPT ![c] = "running"]
            /\ tpc' = [tpc EXCEPT ![c][s] = "closeA"]
            /\ wg' = wg
       ELSE /\ once' = once
            /\ tpc' = [tpc EXCEPT ![c][s] = "done"]
            /\ wg' = [wg EXCEPT ![c] = @ - 1]
    /\ UNCHANGED <<loopVars, arg, peer, closeCalls, dataVars, spc>>

(* Line 66: a.Close() *)
CloseA(c, s) ==
    /\ Running
    /\ tpc[c][s] = "closeA"
    /\ closeCalls' = CloseConn(closeCalls, c, "local")
    /\ tpc' = [tpc EXCEPT ![c][s] = "closeB"]
    /\ UNCHANGED <<loopVars, arg, peer, dataVars, once, wg, spc>>

(* Line 67: b.Close(); closeOnce returns, then the deferred wg.Done. *)
CloseB(c, s) ==
    /\ Running
    /\ tpc[c][s] = "closeB"
    /\ closeCalls' = CloseConn(closeCalls, c, "remote")
    /\ once' = [once EXCEPT ![c] = "done"]
    /\ tpc' = [tpc EXCEPT ![c][s] = "done"]
    /\ wg' = [wg EXCEPT ![c] = @ - 1]
    /\ UNCHANGED <<loopVars, arg, peer, dataVars, spc>>

(* A wait that is satisfied by the first wg.Done. *)
WaitDoneEarly(c) ==
    /\ Running
    /\ spc[c] = "wait"
    /\ wg[c] <= 1
    /\ spc' = [spc EXCEPT ![c] = "returned"]
    /\ UNCHANGED <<loopVars, arg, peer, closeCalls, dataVars, tpc, once, wg>>

(* Line 102: wg.Wait() returns once the counter is zero. *)
WaitDone(c) ==
    /\ Running
    /\ spc[c] = "wait"
    /\ wg[c] = 0
    /\ spc' = [spc EXCEPT ![c] = "returned"]
    /\ UNCHANGED <<loopVars, arg, peer, closeCalls, dataVars, tpc, once, wg>>

(***************************************************************************)
(* Specifications.                                                         *)
(***************************************************************************)
TaskStep(c, s) ==
    \/ Probe(c, s)
    \/ CopyRead(c, s)
    \/ CopyReadEnd(c, s)
    \/ CopyWrite(c, s)
    \/ CloseOnceCall(c, s)
    \/ CloseA(c, s)
    \/ CloseB(c, s)

ConnectStep == DialOk \/ DialFail \/ HandshakeWrite \/ HandshakeFailed

LoopStep == Accept \/ AcceptError \/ ConnectFailed \/ SpawnProxy

EnvStep ==
    \E c \in Conns :
        \/ ClientConnect(c)
        \/ \E s \in Sides : PeerSend(c, s) \/ PeerClose(c, s) \/ PeerReset(c, s)

Next ==
    \/ EnvStep
    \/ LoopStep
    \/ ConnectStep
    \/ \E c \in Conns : StartProxy(c) \/ WaitDone(c)
    \/ \E c \in Conns : \E s \in Sides : TaskStep(c, s)

Spec == Init /\ [][Next]_vars

(* The Go scheduler runs every runnable goroutine: each copy task, each    *)
(* startProxy and the accept loop's handling of an accepted connection     *)
(* keep taking their steps. A dial returns within its 10 s timeout. The    *)
(* peers owe nothing: no fairness for the environment.                     *)
Fairness ==
    /\ \A c \in Conns : \A s \in Sides : WF_vars(TaskStep(c, s))
    /\ \A c \in Conns : WF_vars(StartProxy(c)) /\ WF_vars(WaitDone(c))
    /\ WF_vars(ConnectStep)
    /\ WF_vars(ConnectFailed \/ SpawnProxy)

(* The runs of one client, whose connections carry payload. *)
InitSession == Init /\ env.clients = 1

SessionSpec == InitSession /\ [][Next]_vars

FairSpec == InitSession /\ [][Next]_vars /\ Fairness

(***************************************************************************)
(* startProxy as a function of its arguments: called on a dialed pair or   *)
(* with a nil net.Conn for either argument.                                *)
(***************************************************************************)
InitCall ==
    /\ env = [clients |-> 1, bytes |-> MaxBytes]
    /\ tunnel \in tunnels
    /\ Listening(tunnel)
    /\ lpc = "off"
    /\ cur = 1
    /\ acceptErrs = 0
    /\ ret = [c \in Conns |-> NoRet]
    /\ arg \in [Conns -> [Sides -> {"nil", "conn"}]]
    /\ \A c \in Conns : c # 1 => \A s \in Sides : arg[c][s] = "conn"
    /\ peer = [c \in Conns |-> [s \in Sides |->
                  IF c = 1 /\ arg[c][s] = "conn" THEN "open" ELSE "none"]]
    /\ closeCalls = [c \in Conns |-> [s \in Sides |-> 0]]
    /\ sent = [c \in Conns |-> [s \in Sides |-> 0]]
    /\ rcv = [c \in Conns |-> [s \in Sides |-> <<>>]]
    /\ rd = [c \in Conns |-> [s \in Sides |-> <<>>]]
    /\ wire = [c \in Conns |-> [s \in Sides |-> <<>>]]
    /\ buf = [c \in Conns |-> [s \in Sides |-> <<>>]]
    /\ tpc = [c \in Conns |-> [s \in Sides |-> "idle"]]
    /\ once = [c \in Conns |-> "idle"]
    /\ wg = [c \in Conns |-> 0]
    /\ spc = [c \in Conns |-> IF c = 1 THEN "start" ELSE "none"]

NextCall ==
    \/ \E c \in Conns : \E s \in Sides :
          PeerSend(c, s) \/ PeerClose(c, s) \/ PeerReset(c, s)
    \/ \E c \in Conns : StartProxy(c) \/ WaitDone(c)
    \/ \E c \in Conns : \E s \in Sides : TaskStep(c, s)

CallSpec == InitCall /\ [][NextCall]_vars

(***************************************************************************)
(* Properties.                                                             *)
(***************************************************************************)
Started(c) == spc[c] \in {"wait", "returned"}
TaskEnded(c, s) == tpc[c][s] \in {"done", "skipped"}
PeerGone(c, s) == peer[c][s] \in {"eof", "reset"}

(* C1: when startProxy has returned, both copy directions have stopped and *)
(* Close has been performed on both connections, whatever state the two    *)
(* connections were in when the session started.                           *)
C1_ClosedAtReturn ==
    \A c \in Conns :
        spc[c] = "returned" =>
            /\ \A s \in Sides : TaskEnded(c, s)
            /\ \A s \in Sides : IsClosed(c, s)

(* C2: if either connection of a running session is closed by its peer or  *)
(* reaches end-of-stream, then eventually both connections are closed and  *)
(* the session has returned, even if the other side never sends anything.  *)
C2_PairEventuallyClosed ==
    \A c \in Conns :
        (Started(c) /\ \E s \in Sides : PeerGone(c, s))
            ~> (spc[c] = "returned" /\ \A s \in Sides : IsClosed(c, s))

(* C3: within one session the shared close runs at most once: Close is     *)
(* called at most once on a and at most once on b, at most one task is     *)
(* ever inside the close function, and a second call of closeOnce returns  *)
(* without closing anything and without crashing.                          *)
C3_CloseAtMostOnce ==
    \A c \in Conns :
        /\ \A s \in Sides : closeCalls[c][s] <= 1
        /\ Cardinality({s \in Sides : tpc[c][s] \in {"closeA", "closeB"}}) <= 1
        /\ (\E s \in Sides : tpc[c][s] \in {"closeA", "closeB"})
              <=> once[c] = "running"
        /\ spc[c] # "panic"

(* C3 witness: both copy tasks have finished through closeOnce. *)
C3_BothTriggered ==
    \E c \in Conns :
        /\ \A s \in Sides : tpc[c][s] = "done"
        /\ \A s \in Sides : closeCalls[c][s] = 1

(* The bytes the session of pair c has copied onto side s: everything the  *)
(* engine wrote there, less the handshake connectToServer wrote first.     *)
Copied(c, s) ==
    IF s = "remote" /\ ret[c].err = "nil" /\ ret[c].conn = c
    THEN SubSeq(wire[c][s], Len(HandshakeBytes(tunnel.handshake)) + 1,
                Len(wire[c][s]))
    ELSE wire[c][s]

(* Neither side of pair c has closed, reset or been closed by the engine. *)
AllOpen(c) ==
    \A s \in Sides : peer[c][s] = "open" /\ ~IsClosed(c, s)

(* What has been written to one side is a prefix of what has been read     *)
(* from the other: nothing dropped in the middle, duplicated or reordered. *)
CopiedIsPrefix ==
    \A c \in Conns : \A s \in Sides :
        Started(c) => IsPrefix(Copied(c, Other(s)), rd[c][s])

(* C4 as stated: the prefix property, and every byte read from one side    *)
(* while neither side had closed is eventually written to the other side.  *)
C4_AllBytesDelivered ==
    /\ []CopiedIsPrefix
    /\ \A c \in Conns : \A s \in Sides : \A n \in 1..MaxBytes :
          (AllOpen(c) /\ Len(rd[c][s]) >= n)
              ~> (Len(Copied(c, Other(s))) >= n)

(* C4 amended: the prefix property, and whenever bytes read from one side  *)
(* while both sides are open are still unwritten, eventually everything    *)
(* read has been written to the other side, unless a connection of the     *)
(* pair is closed by its peer, reset, or closed by the session first.      *)
C4_DeliveredUnlessClosed ==
    /\ []CopiedIsPrefix
    /\ \A c \in Conns : \A s \in Sides :
          (AllOpen(c) /\ Len(rd[c][s]) > Len(Copied(c, Other(s))))
              ~> (Len(Copied(c, Other(s))) >= Len(rd[c][s]) \/ ~AllOpen(c))

(* C4 witness: a chunk of two bytes read from the local side has been      *)
(* written whole to the relay while both sides are open.                   *)
C4_ChunkCopied ==
    \E c \in Conns :
        /\ AllOpen(c)
        /\ Len(rd[c]["local"]) >= 2
        /\ Copied(c, "remote") = rd[c]["local"]

(* C5: startProxy returns only after both copy tasks have returned; the    *)
(* shared close having run while the other task still copies is not        *)
(* enough.                                                                 *)
C5_ReturnAfterBothTasks ==
    \A c \in Conns :
        spc[c] = "returned" => \A s \in Sides : TaskEnded(c, s)

(* C5 witness: the shared close has run, the other copy task has not yet   *)
(* returned, and startProxy is still waiting.                              *)
C5_ClosedButStillCopying ==
    \E c \in Conns :
        /\ once[c] = "done"
        /\ \E s \in Sides : tpc[c][s] \in {"read", "write"}
        /\ spc[c] = "wait"

(* connectToServer has returned for connection c and the loop has acted on *)
(* the result.                                                             *)
Handled(c) == ret[c] # NoRet /\ ~(c = cur /\ lpc = "returned")

(* C6: whenever connectToServer fails for an accepted local connection,    *)
(* that local connection is closed, no splice session is ever started for  *)
(* it, and the loop is back at accept (or has accepted further             *)
(* connections).                                                           *)
C6_FailedConnectClosesLocal ==
    \A c \in Conns :
        (ret[c].err # "nil" /\ Handled(c)) =>
            /\ IsClosed(c, "local")
            /\ spc[c] = "none"
            /\ \A s \in Sides : tpc[c][s] = "idle"
            /\ c < cur \/ lpc = "accept"

(* C6 witness: the connect for one connection failed, its local side was   *)
(* closed, and the loop has accepted the next connection.                  *)
C6_AcceptedAfterFailure ==
    \E c \in Conns :
        /\ ret[c].err # "nil"
        /\ IsClosed(c, "local")
        /\ cur > c

(* C7: connectToServer returns either the dialed connection, not closed,   *)
(* with no error, or no connection with an error; a connection that was    *)
(* dialed but whose handshake write failed has been closed by the time it  *)
(* returns.                                                                *)
C7_ConnectResult ==
    \A c \in Conns :
        ret[c] # NoRet =>
            \/ /\ ret[c].err = "nil"
               /\ ret[c].conn = c
               /\ peer[c]["remote"] # "none"
               /\ IsClosed(c, "remote") => once[c] # "idle"
            \/ /\ ret[c].err = "dial"
               /\ ret[c].conn = 0
               /\ peer[c]["remote"] = "none"
            \/ /\ ret[c].err = "write"
               /\ ret[c].conn = 0
               /\ peer[c]["remote"] # "none"
               /\ IsClosed(c, "remote")

(* C7 witness: connectToServer has returned a handshake write error. *)
C7_WriteFailedClosed ==
    \E c \in Conns :
        /\ c = cur
        /\ lpc = "returned"
        /\ ret[c].err = "write"
        /\ IsClosed(c, "remote")

(* C8: on every relay connection that reaches a splice session the first   *)
(* bytes written are the tunnel's handshake token and one newline, once,   *)
(* and everything after them was read from the local connection; nothing   *)
(* is read from the relay connection before the session's copy starts.     *)
C8_HandshakeFirst ==
    \A c \in Conns :
        /\ spc[c] # "none" =>
              /\ IsPrefix(<<tunnel.handshake, "\n">>, wire[c]["remote"])
              /\ IsPrefix(SubSeq(wire[c]["remote"], 3, Len(wire[c]["remote"])),
                          rd[c]["local"])
        /\ spc[c] \in {"none", "start"} => rd[c]["remote"] = <<>>

(* C8 witness: the relay has been sent the handshake and then a payload    *)
(* byte of the local client.                                               *)
C8_PayloadAfterHandshake ==
    \E c \in Conns :
        /\ Started(c)
        /\ Len(wire[c]["remote"]) > 2
        /\ rcv[c]["remote"] # <<>>

(* C9: while the relay dial or handshake for one accepted connection is in *)
(* progress, the same loop can accept the next pending connection.         *)
C9_AcceptNotBlocked ==
    (/\ lpc \in {"connect", "handshake", "hsfail"}
     /\ cur < MaxConns
     /\ peer[cur + 1]["local"] # "none")
        => ENABLED Accept

(* C10: startProxy called with a nil connection does not crash the process *)
(* and does not go on to copy as if the connection were merely closed.     *)
C10_NilReported ==
    \A c \in Conns :
        (/\ \E s \in Sides : arg[c][s] = "nil"
         /\ spc[c] # "none")
            => /\ spc[c] # "panic"
               /\ \A s \in Sides : tpc[c][s] = "idle"

(***************************************************************************)
(* Run and runTunnel: the process from its start.  One tunnel of the list  *)
(* is followed; the filesystem at its socket path holds nothing, a socket  *)
(* file left by an earlier run, or a directory that is not empty.          *)
(***************************************************************************)
(* What the startup code and EncryptHandshake leave alone. *)
connVars == <<env, tunnel, lpc, cur, acceptErrs, ret, arg, peer, closeCalls,
              dataVars, sessVars>>
notCrypt == <<connVars, config, fs, rpc, variant, dials>>

(* No client, no connection, no session. *)
NoConns ==
    /\ lpc = "off"
    /\ cur = 0
    /\ acceptErrs = 0
    /\ ret = [c \in Conns |-> NoRet]
    /\ arg = [c \in Conns |-> [s \in Sides |-> "conn"]]
    /\ peer = [c \in Conns |-> [s \in Sides |-> "none"]]
    /\ closeCalls = [c \in Conns |-> [s \in Sides |-> 0]]
    /\ sent = [c \in Conns |-> [s \in Sides |-> 0]]
    /\ rcv = [c \in Conns |-> [s \in Sides |-> <<>>]]
    /\ rd = [c \in Conns |-> [s \in Sides |-> <<>>]]
    /\ wire = [c \in Conns |-> [s \in Sides |-> <<>>]]
    /\ buf = [c \in Conns |-> [s \in Sides |-> <<>>]]
    /\ tpc = [c \in Conns |-> [s \in Sides |-> "idle"]]
    /\ once = [c \in Conns |-> "idle"]
    /\ wg = [c \in Conns |-> 0]
    /\ spc = [c \in Conns |-> "none"]

sockVars == <<arg, peer, closeCalls, dataVars, sessVars>>

(* One client, whose connections carry one payload byte. *)
RunLoad == [clients |-> 1, bytes |-> 1]

InitRun ==
    /\ env = RunLoad
    /\ config \in [serverAddr : Settings, serverPort : Settings,
                   serverSocket : Addrs]
    /\ tunnel \in tunnelsOf(config.serverSocket)
    /\ tunnel.localAddr # config.serverSocket
          => config.serverSocket = SocketPath
    /\ fs \in [file : {"none", "stale", "dir"}, dir : BOOLEAN,
               err : {"nil"}, removed : {FALSE}, ops : {<<>>}]
    /\ fs.file # "none" => fs.dir
    /\ rpc = "run"
    /\ variant = "none"
    /\ dials = 0
    /\ crypt = NoCrypt
    /\ NoConns

(* A Run that starts the tunnels whatever the settings are. *)
RunNoCheck ==
    /\ rpc = "run"
    /\ rpc' = "tunnel"
    /\ UNCHANGED <<connVars, config, fs, variant, dials, crypt>>

(* Lines 238-250: log.Fatal when the relay host or port is unset,          *)
(* otherwise the tunnel's goroutine is started.                            *)
RunCheck ==
    /\ rpc = "run"
    /\ rpc' = IF config.serverAddr = "" \/ config.serverPort = ""
              THEN "fatal" ELSE "tunnel"
    /\ UNCHANGED <<connVars, config, fs, variant, dials, crypt>>

(* Lines 201-218: runTunnel picks the handler for t.localAddr. *)
RunTunnel ==
    /\ rpc = "tunnel"
    /\ variant' = Classify(tunnel.localAddr)
    /\ rpc' = CASE variant' = "unix" -> "remove"
                [] variant' = "tcp" -> "listenTcp"
                [] OTHER -> "direct"
    /\ UNCHANGED <<connVars, config, fs, dials, crypt>>

(* A handleUnixSocket that does not clear the socket path. *)
UnixRemoveSkipped ==
    /\ rpc = "remove"
    /\ rpc' = "mkdir"
    /\ UNCHANGED <<connVars, config, fs, variant, dials, crypt>>

(* Line 129: os.Remove(socketPath), its error ignored: a file is removed,  *)
(* a directory that is not empty stays.                                    *)
UnixRemove ==
    /\ rpc = "remove"
    /\ fs' = [fs EXCEPT !.file = IF @ = "stale" THEN "none" ELSE @,
                        !.removed = (fs.file = "stale"),
                        !.ops = Append(@, "remove")]
    /\ rpc' = "mkdir"
    /\ UNCHANGED <<connVars, config, variant, dials, crypt>>

(* Lines 132-134: os.MkdirAll on the parent directory; fatal on error. *)
UnixMkdir ==
    /\ rpc = "mkdir"
    /\ \E ok \in (IF fs.dir THEN {TRUE} ELSE BOOLEAN) :
          IF ok
          THEN /\ fs' = [fs EXCEPT !.dir = TRUE, !.ops = Append(@, "mkdir")]
               /\ rpc' = "listenUnix"
          ELSE /\ fs' = [fs EXCEPT !.err = "mkdir",
                                   !.ops = Append(@, "mkdir")]
               /\ rpc' = "fatal"
    /\ UNCHANGED <<connVars, config, variant, dials, crypt>>

(* Lines 136-142: net.Listen("unix", socketPath); fatal on error.  Binding *)
(* a path that exists fails with "address already in use".                 *)
UnixListen ==
    /\ rpc = "listenUnix"
    /\ \E ok \in (IF fs.file = "none" THEN BOOLEAN ELSE {FALSE}) :
          IF ok
          THEN /\ fs' = [fs EXCEPT !.file = "socket",
                                   !.ops = Append(@, "bind")]
               /\ rpc' = "listening"
               /\ lpc' = "accept"
          ELSE /\ fs' = [fs EXCEPT !.ops = Append(@, "bind"),
                            !.err = IF fs.file = "none" THEN "bind"
                                    ELSE "addrinuse"]
               /\ rpc' = "fatal"
               /\ lpc' = lpc
    /\ UNCHANGED <<env, tunnel, cur, acceptErrs, ret, sockVars, config,
                   variant, dials, crypt>>

(* Lines 171-177: net.Listen("tcp", t.localAddr); fatal on error. *)
TcpListen ==
    /\ rpc = "listenTcp"
    /\ \E ok \in BOOLEAN :
          IF ok
          THEN rpc' = "listening" /\ lpc' = "accept" /\ fs' = fs
          ELSE rpc' = "fatal" /\ lpc' = lpc /\ fs' = [fs EXCEPT !.err = "bind"]
    /\ UNCHANGED <<env, tunnel, cur, acceptErrs, ret, sockVars, config,
                   variant, dials, crypt>>

(* Line 220: the direct variant calls connectToServer(t.handshake). *)
DirectConnect ==
    /\ rpc = "direct"
    /\ cur' = cur + 1
    /\ lpc' = "connect"
    /\ rpc' = "directConnect"
    /\ UNCHANGED <<env, tunnel, acceptErrs, ret, sockVars, config, fs,
                   variant, dials, crypt>>

(* Lines 221-224: connectToServer returned an error: log, return. *)
DirectConnectFailed ==
    /\ Running
    /\ rpc = "directConnect"
    /\ lpc = "returned"
    /\ ret[cur].err # "nil"
    /\ rpc' = "returned"
    /\ lpc' = "off"
    /\ UNCHANGED <<env, tunnel, cur, acceptErrs, ret, sockVars, config, fs,
                   variant, dials, crypt>>

(* net.Dial("tcp", address) needs "host:port": an address without the port *)
(* delimiter fails with "missing port in address".                         *)
DialTcp(addr) == IF Contains(addr, ":") THEN BOOLEAN ELSE {FALSE}

(* A failed local dial that returns without closing the relay connection. *)
DirectDialLeak ==
    /\ Running
    /\ rpc = "directConnect"
    /\ lpc = "returned"
    /\ ret[cur].err = "nil"
    /\ dials' = dials + 1
    /\ lpc' = "off"
    /\ \E ok \in DialTcp(tunnel.localAddr) :
          IF ok
          THEN /\ peer' = [peer EXCEPT ![cur]["local"] = "open"]
               /\ arg' = [arg EXCEPT ![cur] =
                             [local |-> "conn", remote |-> "conn"]]
               /\ spc' = [spc EXCEPT ![cur] = "start"]
               /\ rpc' = "directProxy"
          ELSE /\ rpc' = "returned"
               /\ UNCHANGED <<peer, arg, spc>>
    /\ UNCHANGED <<env, tunnel, cur, acceptErrs, ret, closeCalls, dataVars,
                   tpc, once, wg, config, fs, variant, crypt>>

(* Lines 226-233: net.Dial("tcp", t.localAddr); on error serverConn.Close() *)
(* and return, otherwise startProxy(localConn, serverConn) is called.      *)
DirectDial ==
    /\ Running
    /\ rpc = "directConnect"
    /\ lpc = "returned"
    /\ ret[cur].err = "nil"
    /\ dials' = dials + 1
    /\ lpc' = "off"
    /\ \E ok \in DialTcp(tunnel.localAddr) :
          IF ok
          THEN /\ peer' = [peer EXCEPT ![cur]["local"] = "open"]
               /\ arg' = [arg EXCEPT ![cur] =
                             [local |-> "conn", remote |-> "conn"]]
               /\ spc' = [spc EXCEPT ![cur] = "start"]
               /\ rpc' = "directProxy"
               /\ closeCalls' = closeCalls
          ELSE /\ closeCalls' = CloseConn(closeCalls, cur, "remote")
               /\ rpc' = "returned"
               /\ UNCHANGED <<peer, arg, spc>>
    /\ UNCHANGED <<env, tunnel, cur, acceptErrs, ret, dataVars, tpc, once,
                   wg, config, fs, variant, crypt>>

(* runTunnel has returned: after an error of the direct variant, or when   *)
(* the startProxy it called has returned.                                  *)
RunTunnelReturned ==
    \/ rpc = "returned"
    \/ rpc = "directProxy" /\ spc[1] = "returned"

StartStep ==
    \/ RunCheck
    \/ RunTunnel
    \/ UnixRemove
    \/ UnixMkdir
    \/ UnixListen
    \/ TcpListen

DirectStep == DirectConnect \/ DirectConnectFailed \/ DirectDial

NextRun == StartStep \/ DirectStep \/ Next

RunSpec == InitRun /\ [][NextRun]_vars

(* C12: with the relay host or the relay port unset, Run ends the process  *)
(* before any tunnel task exists: no handler is chosen, nothing is removed *)
(* from, created in or bound on the filesystem, no listener accepts, and   *)
(* neither the relay nor the local address is dialed.                      *)
C12_NoTunnelWithoutRelay ==
    (config.serverAddr = "" \/ config.serverPort = "") =>
        /\ rpc \in {"run", "fatal"}
        /\ variant = "none"
        /\ fs.ops = <<>> /\ fs.file # "socket" /\ ~fs.removed
        /\ lpc = "off" /\ cur = 0 /\ dials = 0
        /\ \A c \in Conns :
              spc[c] = "none" /\ \A s \in Sides : peer[c][s] = "none"

(* C12 witness: the host is set, the port is not; the process has ended    *)
(* and the socket file of an earlier run is still there.                   *)
C12_AbortedAtStartup ==
    /\ config.serverAddr = "set" /\ config.serverPort = ""
    /\ rpc = "fatal"
    /\ fs.file = "stale"

DirectRank(p) ==
    CASE p = "direct" -> 1
      [] p = "directConnect" -> 2
      [] p = "directProxy" -> 3
      [] p = "returned" -> 4
      [] OTHER -> 0

(* C13: a direct-variant runTunnel makes exactly one connectToServer call, *)
(* then at most one dial to the local address, then at most one session,   *)
(* and never goes back; after a failed relay connect no local dial is      *)
(* made, and after a failed local dial the relay connection is closed and  *)
(* no session starts.                                                      *)
C13_DirectRunsOnce ==
    /\ [](variant = "direct" =>
            /\ cur <= 1 /\ dials <= 1
            /\ \A c \in Conns : c # 1 => spc[c] = "none"
            /\ lpc # "accept"
            /\ rpc \in {"directConnect", "directProxy", "returned"}
                  => cur = 1
            /\ dials = 1 => ret[1] = [conn |-> 1, err |-> "nil"]
            /\ spc[1] # "none" => dials = 1 /\ rpc = "directProxy"
            /\ (rpc = "returned" /\ ret[1].err # "nil") =>
                  dials = 0 /\ peer[1]["local"] = "none"
            /\ (rpc = "returned" /\ dials = 1) =>
                  IsClosed(1, "remote") /\ spc[1] = "none")
    /\ [][(variant = "direct" /\ rpc' # rpc) =>
              DirectRank(rpc') > DirectRank(rpc)]_vars

(* C13 witness: the relay connect succeeded, the one local dial failed,    *)
(* and runTunnel returned with the relay connection closed.                *)
C13_LocalDialFailed ==
    /\ variant = "direct"
    /\ rpc = "returned"
    /\ dials = 1
    /\ closeCalls[1]["remote"] = 1
    /\ spc[1] = "none"

(* C16: an error from Accept leaves the loop at Accept and starts neither  *)
(* a relay connection nor a session; a listening tunnel never stops        *)
(* listening, and a handler ends the process only from the directory       *)
(* creation or from the bind.                                              *)
C16_AcceptErrorContinues ==
    /\ [][(lpc = "accept" /\ acceptErrs' # acceptErrs) =>
              /\ lpc' = "accept" /\ rpc' = "listening"
              /\ UNCHANGED <<cur, ret, arg, peer, closeCalls, wire, spc>>]_vars
    /\ [][rpc = "listening" => rpc' = "listening"]_vars
    /\ [][(variant # "none" /\ rpc' = "fatal" /\ rpc # "fatal") =>
              rpc \in {"mkdir", "listenUnix", "listenTcp"}]_vars

(* C16 witness: the loop has seen an accept error and has accepted a       *)
(* connection, and is at Accept again.                                     *)
C16_AcceptingAfterError ==
    /\ rpc = "listening"
    /\ lpc = "accept"
    /\ acceptErrs > 0
    /\ cur > 0

(* C18: handleUnixSocket calls remove, then mkdir, then bind, in that      *)
(* order; a socket file left at the path is gone before the bind, so the   *)
(* bind answers "address in use" only for a path that remove cannot clear. *)
C18_RemoveMkdirBind ==
    variant = "unix" =>
        /\ IsPrefix(fs.ops, <<"remove", "mkdir", "bind">>)
        /\ rpc = "mkdir" => fs.ops = <<"remove">>
        /\ rpc = "listenUnix" => fs.ops = <<"remove", "mkdir">> /\ fs.dir
        /\ rpc \in {"mkdir", "listenUnix", "listening", "fatal"}
              => fs.file # "stale"
        /\ rpc = "listening" =>
              fs.ops = <<"remove", "mkdir", "bind">> /\ fs.file = "socket"
        /\ fs.err = "addrinuse" => fs.file = "dir" /\ ~fs.removed

(* C18 witness: the path held a stale socket file, it was removed, and the *)
(* tunnel is listening on a new socket.                                    *)
C18_ListeningOverStaleSocket ==
    /\ variant = "unix"
    /\ fs.removed
    /\ fs.file = "socket"
    /\ rpc = "listening"

(* C19: runTunnel puts every local address into exactly one variant: a     *)
(* leading "/" is a domain socket listener whatever else the address       *)
(* holds; otherwise a ":" anywhere is a TCP listener; otherwise, the empty *)
(* address included, it is the direct variant, which never listens.        *)
C19_VariantPrecedence ==
    variant # "none" =>
        LET a == tunnel.localAddr
            slash == a # <<>> /\ Head(a) = "/"
            colon == \E i \in DOMAIN a : a[i] = ":"
        IN  /\ slash => variant = "unix"
            /\ (~slash /\ colon) => variant = "tcp"
            /\ (~slash /\ ~colon) => variant = "direct"
            /\ variant = "unix" =>
                  rpc \in {"remove", "mkdir", "listenUnix", "listening",
                           "fatal"}
            /\ variant = "tcp" => rpc \in {"listenTcp", "listening", "fatal"}
            /\ variant = "direct" =>
                  /\ rpc \in {"direct", "directConnect", "directProxy",
                              "returned"}
                  /\ lpc # "accept" /\ fs.ops = <<>>

(* C19 witness: the address "/:" is listening as a domain socket. *)
C19_SlashBeforeColon ==
    /\ tunnel.localAddr = <<"/", ":">>
    /\ variant = "unix"
    /\ rpc = "listening"

(***************************************************************************)
(* crypt.EncryptHandshake(plaintext), in its two versions: the key is the  *)
(* bytes of HANDSHAKE_SECRET ("raw"), or their base64 decoding ("base64"). *)
(***************************************************************************)
KeySize == 32
MaxSecretLen == 45

(* The value of HANDSHAKE_SECRET: its length, the number of trailing "="   *)
(* and whether all other characters are of the base64 alphabet.            *)
Secrets ==
    [len : 0..MaxSecretLen, pad : 0..2, alphabet : BOOLEAN]

(* base64.StdEncoding.DecodeString accepts padded input only: the length   *)
(* is a multiple of 4 and at most two "=" end the last group.              *)
DecodeOk(sec) ==
    /\ sec.alphabet
    /\ sec.len % 4 = 0
    /\ sec.pad > 0 => sec.len > 0

DecodedLen(sec) == (sec.len \div 4) * 3 - sec.pad

(* The key sizes aes.NewCipher accepts. *)
AesKeySizes == {16, 24, KeySize}

(* A length check that accepts every AES key size. *)
KeyLenAes(n) == n \in AesKeySizes

(* `if len(key) != 32` *)
KeyLenOk(n) == n = KeySize

CryptCalls ==
    { [pc |-> "start", version |-> v, secret |-> sec, plaintext |-> pt,
       key |-> 0, ops |-> <<>>, out |-> <<>>, err |-> "nil"] :
        v \in {"raw", "base64"}, sec \in Secrets,
        pt \in {"usbmuxd", "forward"} }

InitCrypt ==
    /\ env = [clients |-> 1, bytes |-> 0]
    /\ tunnel \in tunnels
    /\ NoConns
    /\ config = [serverAddr |-> "set", serverPort |-> "set",
                 serverSocket |-> SocketPath]
    /\ variant = "none"
    /\ fs = [file |-> "none", dir |-> TRUE, err |-> "nil",
             removed |-> FALSE, ops |-> <<>>]
    /\ rpc = "off"
    /\ dials = 0
    /\ crypt \in CryptCalls
    /\ crypt.version = "raw" => crypt.secret.pad = 0 /\ crypt.secret.alphabet
    /\ crypt.plaintext = tunnel.handshake

CryptReturn(e, o) == [crypt EXCEPT !.pc = "returned", !.err = e, !.out = o]

(* part_000 line 16: key := []byte(os.Getenv("HANDSHAKE_SECRET")).         *)
(* Dockerfile lines 27-31: the key is decoded from base64; on a decoding   *)
(* error return "", err (the bytes decoded so far are dropped).            *)
CryptGetKey ==
    /\ crypt.pc = "start"
    /\ IF crypt.version = "raw"
       THEN crypt' = [crypt EXCEPT !.pc = "check", !.key = crypt.secret.len]
       ELSE IF DecodeOk(crypt.secret)
       THEN crypt' = [crypt EXCEPT !.pc = "check",
                                   !.key = DecodedLen(crypt.secret)]
       ELSE \E k \in {0, (crypt.secret.len \div 4) * 3} :
               crypt' = [CryptReturn("decode", <<>>) EXCEPT !.key = k]
    /\ UNCHANGED notCrypt

(* part_000 lines 18-20, Dockerfile lines 32-34. *)
CryptCheckLen ==
    /\ crypt.pc = "check"
    /\ crypt' = IF KeyLenOk(crypt.key)
                THEN [crypt EXCEPT !.pc = "cipher"]
                ELSE CryptReturn("keylen", <<>>)
    /\ UNCHANGED notCrypt

(* aes.NewCipher(key) *)
CryptNewCipher ==
    /\ crypt.pc = "cipher"
    /\ crypt' = IF crypt.key \in AesKeySizes
                THEN [crypt EXCEPT !.pc = "gcm",
                                   !.ops = Append(@, "NewCipher")]
                ELSE [CryptReturn("cipher", <<>>) EXCEPT
                                   !.ops = Append(@, "NewCipher")]
    /\ UNCHANGED notCrypt

(* cipher.NewGCM(block): an AES block always has the block size GCM needs. *)
CryptNewGCM ==
    /\ crypt.pc = "gcm"
    /\ crypt' = [crypt EXCEPT !.pc = "nonce", !.ops = Append(@, "NewGCM")]
    /\ UNCHANGED notCrypt

(* io.ReadFull(rand.Reader, nonce): the random source may fail. *)
CryptNonce ==
    /\ crypt.pc = "nonce"
    /\ \E ok \in BOOLEAN :
          crypt' = IF ok
                   THEN [crypt EXCEPT !.pc = "seal",
                                      !.ops = Append(@, "nonce")]
                   ELSE [CryptReturn("rand", <<>>) EXCEPT
                                      !.ops = Append(@, "nonce")]
    /\ UNCHANGED notCrypt

(* aesgcm.Seal(nonce, nonce, plaintext, nil), then the base64 encoding of  *)
(* nonce || ciphertext.                                                    *)
CryptSeal ==
    /\ crypt.pc = "seal"
    /\ crypt' = [CryptReturn("nil", <<"base64", "nonce", crypt.plaintext>>)
                    EXCEPT !.ops = Append(@, "Seal")]
    /\ UNCHANGED notCrypt

NextCrypt ==
    \/ CryptGetKey
    \/ CryptCheckLen
    \/ CryptNewCipher
    \/ CryptNewGCM
    \/ CryptNonce
    \/ CryptSeal

CryptSpec == InitCrypt /\ [][NextCrypt]_vars

(* C11: whenever the key EncryptHandshake obtained is not exactly 32 bytes *)
(* long, the call creates no cipher, draws no nonce and seals nothing, and *)
(* it returns an error with an empty result; it goes on to the cipher only *)
(* with a 32-byte key.                                                     *)
C11_OnlyKeySizeEncrypts ==
    (crypt.pc \notin {"off", "start"} /\ crypt.key # 32) =>
        /\ crypt.ops = <<>>
        /\ crypt.pc \in {"check", "returned"}
        /\ crypt.pc = "returned" => crypt.err # "nil" /\ crypt.out = <<>>

(* C11 witness: a 16-byte key, which AES itself would accept, was refused  *)
(* by the length check.                                                    *)
C11_ShortKeyRefused ==
    /\ crypt.pc = "returned"
    /\ crypt.key = 16
    /\ crypt.err = "keylen"

(* C14: a session closes neither connection before a copy direction has    *)
(* terminated: nothing is closed when the session starts, the close gate   *)
(* is entered only by a task coming out of its copy (never by a task that  *)
(* skipped its copy), and only a task inside the gate calls Close.         *)
C14_CloseOnlyAfterCopyEnds ==
    /\ [](\A c \in Conns :
            /\ spc[c] = "start" => \A s \in Sides : ~IsClosed(c, s)
            /\ (Started(c) /\ \E s \in Sides : IsClosed(c, s)) =>
                  \E s \in Sides : tpc[c][s] \in {"closeA", "closeB", "done"})
    /\ [][\A c \in Conns : \A s \in Sides :
            /\ (tpc'[c][s] = "once" /\ tpc[c][s] # "once")
                  => tpc[c][s] \in {"read", "write"}
            /\ (tpc'[c][s] = "closeA" /\ tpc[c][s] # "closeA")
                  => tpc[c][s] = "once"
            /\ (Started(c) /\ closeCalls'[c][s] # closeCalls[c][s])
                  => \E u \in Sides : tpc[c][u] \in {"closeA", "closeB"}]_vars

(* C14 witness: the copy from one side has ended and its task is running   *)
(* the shared close while the other direction is still copying.            *)
C14_CloseByEndedCopy ==
    \E c \in Conns : \E s \in Sides :
        /\ tpc[c][s] = "closeB"
        /\ tpc[c][Other(s)] \in {"read", "write"}

(* C15 as stated: no copy direction has started (is reading or writing)    *)
(* while the other connection is still unprobed.                           *)
C15_BothProbedBeforeCopy ==
    \A c \in Conns : \A s \in Sides :
        tpc[c][s] \in {"read", "write"} => tpc[c][Other(s)] # "probe"

(* C15 amended: each copy direction probes its own source connection       *)
(* before it starts copying, a direction whose probe meets a closed source *)
(* is not started and never reads a byte, and a direction whose source is  *)
(* open is started; the probe of one side is not ordered with the copy of  *)
(* the other direction.                                                    *)
C15_OwnSourceProbed ==
    /\ [](\A c \in Conns : \A s \in Sides :
            tpc[c][s] \in {"probe", "skipped"} =>
                rd[c][s] = <<>> /\ buf[c][s] = <<>>)
    /\ [][\A c \in Conns : \A s \in Sides :
            /\ (tpc'[c][s] \in {"read", "write"}
                  /\ tpc[c][s] \notin {"read", "write"})
                  => tpc[c][s] = "probe"
            /\ (tpc[c][s] = "probe" /\ tpc'[c][s] # "probe") =>
                  /\ IsClosed(c, s) => tpc'[c][s] = "skipped"
                  /\ (~IsClosed(c, s) /\ peer[c][s] \in {"open", "eof"})
                        => tpc'[c][s] = "read"]_vars

(* C15 witness: a direction was not started because its source was already *)
(* closed when it was probed, after the other direction had run.           *)
C15_SkippedClosedSource ==
    \E c \in Conns : \E s \in Sides :
        /\ tpc[c][s] = "skipped"
        /\ tpc[c][Other(s)] = "done"
        /\ peer[c][s] = "open"

(* Everything the program holds for connection pair c. *)
PairState(c) ==
    <<ret[c], arg[c], peer[c], closeCalls[c], sent[c], rcv[c], rd[c],
      wire[c], buf[c], tpc[c], once[c], wg[c], spc[c]>>

(* C17: connection pairs are independent: no step changes the state of two *)
(* pairs, so an error, a close or the end of one session, or a failed      *)
(* relay connect, leaves every other pair's connections and tasks as they  *)
(* are; the listener stays bound, the loop moves only by its own steps on  *)
(* the pair it is handling, and it is back at Accept after a failed        *)
(* connect.                                                                *)
C17_PairsIndependent ==
    /\ [](rpc = "listening" /\ Running)
    /\ [][\A c, d \in Conns :
            (c # d /\ PairState(c)' # PairState(c))
                => PairState(d)' = PairState(d)]_vars
    /\ [][\A c \in Conns :
            (PairState(c)' # PairState(c) /\ c # cur) =>
                UNCHANGED <<lpc, cur, acceptErrs>>]_vars
    /\ [][(lpc = "returned" /\ lpc' # lpc) => lpc' = "accept"]_vars

(* C17 witness: the relay connect of one pair failed and its local         *)
(* connection was closed, while the session of the other pair has both     *)
(* connections open and both copy tasks reading.                           *)
C17_OtherSessionUntouched ==
    \E c, d \in Conns :
        /\ c # d
        /\ ret[c].err # "nil" /\ IsClosed(c, "local")
        /\ spc[d] = "wait"
        /\ \A s \in Sides : ~IsClosed(d, s) /\ tpc[d][s] = "read"
        /\ lpc = "accept"

(* C20: once the shared close of a session has been triggered the session  *)
(* cannot hang: the other copy task returns and startProxy returns.        *)
C20_CloseLeadsToReturn ==
    \A c \in Conns :
        (Started(c) /\ once[c] # "idle")
            ~> (spc[c] = "returned" /\ \A s \in Sides : TaskEnded(c, s))

(* C20 witness: the task blocked in its copy when the close fired has gone *)
(* through the close gate as a no-op and startProxy has returned.          *)
C20_ReturnedAfterClose ==
    \E c \in Conns :
        /\ spc[c] = "returned"
        /\ \A s \in Sides : tpc[c][s] = "done"
        /\ once[c] = "done"

====
